---- MODULE Spec2Model ----
(***************************************************************************)
(* A model of the Daraja sandbox client (daraja_client.py) and of the      *)
(* line-oriented dispatcher that exposes it (server.py).                   *)
(*                                                                         *)
(* Strings are sequences of one-character strings, Python's None is the    *)
(* token 0, time.time() is the integer variable now (seconds).             *)
(***************************************************************************)
EXTENDS Integers, Sequences, FiniteSets, TLC

\* ------------------------------------------------------------------ bounds
\* The clock stops at MaxTime; a client starts at most MaxCalls operations.
MaxTime == 40
MaxCalls == 3
\* simulate_stk_push is started at most MaxPushes times.
MaxPushes == 2
\* doc_search is called at most MaxSearches times, with top_n up to MaxTopN.
MaxSearches == 3
MaxTopN == 3
\* The markup inputs of the extraction are all sequences of up to MaxHtmlLen elements.
MaxHtmlLen == 4
\* main() reads at most MaxLines lines from stdin.
MaxLines == 2

\* ------------------------------------------------------- program constants
\* daraja_client.py:65   time.time() < self._token_expires_at - 30
SafetyMargin == 30
\* daraja_client.py:77   int(data.get('expires_in', 3600))
DefaultExpiresIn == 3600
\* daraja_client.py:108  description[:12]
AccountRefLen == 12

VARIABLES
    now,                \* time.time()
    callers,            \* the threads that use the one client object
    credentials,        \* consumer_key and consumer_secret are both set
    token,              \* self._token
    token_expires_at,   \* self._token_expires_at
    ncalls,             \* operations started so far
    pc,                 \* per caller: the line it stands at
    loc,                \* per caller: the locals of the running operation
    ret,                \* per caller: how its last operation ended
    posted,             \* the last STK push request put on the wire (line 115)
    docs_index,         \* self._docs_index: (paragraph, source) in order
    nsearch,            \* doc_search calls so far
    search,             \* how the last doc_search ended
    html,               \* the markup one documentation source serves
    paragraphs,         \* what indexing that markup appended (lines 195-198)
    extracted,          \* that markup has been indexed
    lines,              \* the lines main() has read from stdin, in order
    stdout,             \* the responses written, in order
    server,             \* "serving", or "crashed" by an exception out of main()
    invoked             \* for each response written, what lines 51-66 did to write it

tokvars == <<now, callers, credentials, token, token_expires_at, ncalls, pc, loc,
             ret, posted>>

docvars == <<docs_index, nsearch, search>>

extvars == <<html, paragraphs, extracted>>

srvvars == <<lines, stdout, server, invoked>>

vars == <<tokvars, docvars, extvars, srvvars>>

\* ------------------------------------------------------------------ helpers
\* Python's None, as a token value
None == 0

Min(a, b) == IF a <= b THEN a ELSE b

\* A plausible slip at line 108: the slice is one character short.
Slice_OneShort(s, n) == SubSeq(s, 1, Min(n - 1, Len(s)))

\* Python's s[:n] on a string
Slice(s, n) == SubSeq(s, 1, Min(n, Len(s)))

\* The clock advances by one of these steps (seconds).
TickSteps == {10}

AllCallers == {1, 2}

\* ---------------------------------------------------------- the OAuth gateway
\* What GET /oauth/v1/generate can answer (lines 73-77).  expires_in is
\* absent, present and convertible by int(), or present and not convertible.
ExpiresInValues ==
    {[tag |-> "absent", v |-> 0], [tag |-> "bad", v |-> 0]}
    \cup {[tag |-> "int", v |-> n] : n \in {20, 30, 31}}

OAuthResponses ==
    {[kind |-> k, has_token |-> FALSE, expires_in |-> [tag |-> "absent", v |-> 0]] :
        k \in {"transport_error", "http_error", "not_json"}}
    \cup {[kind |-> "json", has_token |-> h, expires_in |-> e] :
            h \in BOOLEAN, e \in ExpiresInValues}

\* line 77: int(data.get('expires_in', 3600))
ExpiresIn(resp) ==
    IF resp.expires_in.tag = "absent" THEN DefaultExpiresIn ELSE resp.expires_in.v

\* lines 73-77 raise: requests.get, raise_for_status, r.json(), int()
OAuthRaises(resp) ==
    \/ resp.kind # "json"
    \/ resp.expires_in.tag = "bad"

\* line 76: data.get('access_token').  An access token is an opaque string; the
\* model names the one the gateway grants at instant t for e seconds by the
\* instant t + e at which the gateway stops honouring it.
AccessToken(resp, t) == IF resp.has_token THEN t + ExpiresIn(resp) ELSE None

\* The gateway still honours token tok at instant t.
Honoured(tok, t) == tok # None /\ t < tok

\* ------------------------------------------------------------ the operations
Descriptions ==
    { <<>>,
      <<"F","e","e","s">>,
      <<"A","c","c","o","u","n","t"," ","4","2","1","7">>,
      <<"A","c","c","o","u","n","t"," ","4","2","1","7","9">>,
      <<"S","c","h","o","o","l"," ","f","e","e","s"," ","p","a","y","m","e","n","t">> }

PhoneNumbers == {"254700000000"}
Amounts == {10}

NoLoc == [op |-> "none", description |-> <<>>, start_at |-> 0, start_token |-> None,
          start_expires_at |-> 0, token |-> None, expires_in |-> 0,
          answer |-> "none"]

NoRet == [kind |-> "none", value |-> None, at |-> 0, hit |-> FALSE,
          answer |-> "none", expires_in |-> 0, expires_at |-> 0, cache_kept |-> TRUE]

NoPayload == [sent |-> FALSE]

\* A plausible slip at line 65: the safety margin is forgotten.
CacheFresh_NoMargin(tok, expires_at, t) == tok # None /\ t < expires_at

\* line 65: self._token and time.time() < self._token_expires_at - 30
CacheFresh(tok, expires_at, t) == tok # None /\ t < expires_at - SafetyMargin

\* line 68: not (self.consumer_key and self.consumer_secret)
CredentialsMissing == ~credentials

\* lines 98-110: the payload of simulate_stk_push (Password, Timestamp and
\* CallBackURL, which no operation reads back, are left out)
StkPayload(phone_number, amount, description) ==
    [sent |-> TRUE,
     BusinessShortCode |-> "174379",
     TransactionType |-> "CustomerPayBillOnline",
     Amount |-> amount,
     PartyA |-> phone_number,
     PartyB |-> "174379",
     PhoneNumber |-> phone_number,
     AccountReference |-> Slice(description, AccountRefLen),
     TransactionDesc |-> description]

\* How _get_oauth ends for caller c: kind is "token" (line 66 or 81 returned
\* value) or "raised"; answer is what the gateway answered, if it was asked.
Ended(c, kind, value, hit) ==
    [kind |-> kind, value |-> value, at |-> now, hit |-> hit,
     answer |-> loc[c].answer, expires_in |-> loc[c].expires_in,
     expires_at |-> token_expires_at,
     cache_kept |-> /\ token = loc[c].start_token
                    /\ token_expires_at = loc[c].start_expires_at]

\* _get_oauth handed `value` to its caller (line 66 or 81): a bare _get_oauth
\* call ends here, simulate_stk_push goes on to build and send its request.
Handed(c, value, hit) ==
    /\ ret' = [ret EXCEPT ![c] = Ended(c, "token", value, hit)]
    /\ IF loc[c].op = "simulate_stk_push"
       THEN /\ pc' = [pc EXCEPT ![c] = "post"]
            /\ loc' = [loc EXCEPT ![c].token = value]
            /\ \E p \in PhoneNumbers, a \in Amounts :
                 posted' = StkPayload(p, a, loc[c].description)
       ELSE /\ pc' = [pc EXCEPT ![c] = "idle"]
            /\ loc' = [loc EXCEPT ![c] = NoLoc]
            /\ UNCHANGED posted

Raised(c, answer) ==
    /\ pc' = [pc EXCEPT ![c] = "idle"]
    /\ loc' = [loc EXCEPT ![c] = NoLoc]
    /\ ret' = [ret EXCEPT ![c] = [Ended(c, "raised", None, FALSE) EXCEPT !.answer = answer]]
    /\ UNCHANGED posted

\* A caller enters _get_oauth, directly or through simulate_stk_push (line 92),
\* and evaluates line 65; on a miss, line 68 and the request of line 73.
Call(c, op, description, limit) ==
    /\ c \in callers
    /\ pc[c] = "idle"
    /\ ncalls < limit
    /\ ncalls' = ncalls + 1
    /\ LET l == [NoLoc EXCEPT !.op = op, !.description = description,
                              !.start_at = now, !.start_token = token,
                              !.start_expires_at = token_expires_at]
       IN  IF CacheFresh(token, token_expires_at, now)
           THEN /\ pc' = [pc EXCEPT ![c] = "hit"]
                /\ loc' = [loc EXCEPT ![c] = l]
                /\ UNCHANGED ret
           ELSE IF CredentialsMissing
           THEN /\ pc' = [pc EXCEPT ![c] = "idle"]
                /\ loc' = [loc EXCEPT ![c] = NoLoc]
                /\ ret' = [ret EXCEPT ![c] =
                             [NoRet EXCEPT !.kind = "raised", !.at = now,
                                           !.expires_at = token_expires_at]]
           ELSE /\ pc' = [pc EXCEPT ![c] = "request"]
                /\ loc' = [loc EXCEPT ![c] = l]
                /\ UNCHANGED ret
    /\ UNCHANGED <<docvars, extvars, srvvars, now, callers, credentials, token, token_expires_at, posted>>

GetOauth(c) == Call(c, "_get_oauth", <<>>, MaxCalls)

SimulateStkPush(c) == \E d \in Descriptions : Call(c, "simulate_stk_push", d, MaxPushes)

\* line 66: return self._token
ReturnCached(c) ==
    /\ c \in callers
    /\ pc[c] = "hit"
    /\ Handed(c, token, TRUE)
    /\ UNCHANGED <<docvars, extvars, srvvars, now, callers, credentials, token, token_expires_at, ncalls>>

\* lines 73-77: the gateway answers, and the answer is parsed
OAuthAnswer(c) ==
    /\ c \in callers
    /\ pc[c] = "request"
    /\ \E resp \in OAuthResponses :
         IF OAuthRaises(resp)
         THEN Raised(c, "raises")
         ELSE /\ pc' = [pc EXCEPT ![c] = "store_token"]
              /\ loc' = [loc EXCEPT ![c].token = AccessToken(resp, now),
                                    ![c].expires_in = ExpiresIn(resp),
                                    ![c].answer = IF resp.has_token THEN "token"
                                                  ELSE "no_access_token"]
              /\ UNCHANGED <<ret, posted>>
    /\ UNCHANGED <<docvars, extvars, srvvars, now, callers, credentials, token, token_expires_at, ncalls>>

\* line 78: self._token = token
StoreToken(c) ==
    /\ c \in callers
    /\ pc[c] = "store_token"
    /\ token' = loc[c].token
    /\ pc' = [pc EXCEPT ![c] = "store_expiry"]
    /\ UNCHANGED <<docvars, extvars, srvvars, now, callers, credentials, token_expires_at, ncalls, loc, ret, posted>>

\* A plausible slip at line 79: the instant of the fetch is stored, not the expiry.
NewExpiry_FetchTime(t, expires_in) == t

\* line 79: time.time() + expires_in
NewExpiry(t, expires_in) == t + expires_in

\* line 79: self._token_expires_at = time.time() + expires_in
StoreExpiry(c) ==
    /\ c \in callers
    /\ pc[c] = "store_expiry"
    /\ token_expires_at' = NewExpiry(now, loc[c].expires_in)
    /\ pc' = [pc EXCEPT ![c] = "return"]
    /\ UNCHANGED <<docvars, extvars, srvvars, now, callers, credentials, token, ncalls, loc, ret, posted>>

\* line 81: return token
ReturnFetched(c) ==
    /\ c \in callers
    /\ pc[c] = "return"
    /\ Handed(c, loc[c].token, FALSE)
    /\ UNCHANGED <<docvars, extvars, srvvars, now, callers, credentials, token, token_expires_at, ncalls>>

\* lines 115-117: the gateway answers the push; the response is relayed or
\* raise_for_status raises.
PushAnswer(c) ==
    /\ c \in callers
    /\ pc[c] = "post"
    /\ pc' = [pc EXCEPT ![c] = "idle"]
    /\ loc' = [loc EXCEPT ![c] = NoLoc]
    /\ UNCHANGED <<docvars, extvars, srvvars, now, callers, credentials, token, token_expires_at, ncalls, ret,
                   posted>>

\* Time passes only while every caller is outside the client or waits for the
\* network (requests.get of line 73, requests.post of line 115).
Tick ==
    /\ \A c \in callers : pc[c] \in {"idle", "request", "post"}
    /\ \E d \in TickSteps : /\ now + d <= MaxTime
                            /\ now' = now + d
    /\ UNCHANGED <<docvars, extvars, srvvars, callers, credentials, token, token_expires_at, ncalls, pc, loc,
                   ret, posted>>

\* line 53: self._docs_index = [], and no search made
NoSearch == [kind |-> "none", query |-> <<>>, top_n |-> 0, matches |-> <<>>,
             note |-> FALSE, order |-> <<>>, fetched |-> <<>>, was_empty |-> TRUE,
             changed |-> FALSE, nth |-> 0]

DocsIdle ==
    /\ docs_index = <<>>
    /\ nsearch = 0
    /\ search = NoSearch

ExtractIdle ==
    /\ html = <<>>
    /\ paragraphs = <<>>
    /\ extracted = FALSE

ServerIdle ==
    /\ lines = <<>>
    /\ stdout = <<>>
    /\ server = "serving"
    /\ invoked = <<>>

TokIdle ==
    /\ now = 0
    /\ callers = {}
    /\ credentials = TRUE
    /\ token = None
    /\ token_expires_at = 0
    /\ ncalls = 0
    /\ pc = [c \in AllCallers |-> "idle"]
    /\ loc = [c \in AllCallers |-> NoLoc]
    /\ ret = [c \in AllCallers |-> NoRet]
    /\ posted = NoPayload

TokInit(cs) ==
    /\ now = 0
    /\ callers = cs
    /\ credentials \in BOOLEAN
    /\ token = None
    /\ token_expires_at = 0
    /\ ncalls = 0
    /\ pc = [c \in AllCallers |-> "idle"]
    /\ loc = [c \in AllCallers |-> NoLoc]
    /\ ret = [c \in AllCallers |-> NoRet]
    /\ posted = NoPayload
    /\ DocsIdle
    /\ ExtractIdle
    /\ ServerIdle

\* _get_oauth alone, as every signed operation enters it
TokNext ==
    \/ \E c \in AllCallers : GetOauth(c)
    \/ \E c \in AllCallers : ReturnCached(c)
    \/ \E c \in AllCallers : OAuthAnswer(c)
    \/ \E c \in AllCallers : StoreToken(c)
    \/ \E c \in AllCallers : StoreExpiry(c)
    \/ \E c \in AllCallers : ReturnFetched(c)
    \/ Tick

\* One caller: the client as the dispatcher uses it.
Init == TokInit({1})
Next == TokNext
Spec == Init /\ [][Next]_vars

\* Two callers share the client without a lock.
InitConc == TokInit({1, 2})
SpecConc == InitConc /\ [][Next]_vars

\* simulate_stk_push, from one caller
NextPush ==
    \/ SimulateStkPush(1)
    \/ ReturnCached(1)
    \/ OAuthAnswer(1)
    \/ StoreToken(1)
    \/ StoreExpiry(1)
    \/ ReturnFetched(1)
    \/ PushAnswer(1)
    \/ Tick

SpecPush == Init /\ [][NextPush]_vars

\* ======================================================= the token manager
FetchPcs == {"request", "store_token", "store_expiry", "return"}

\* C1: _get_oauth never hands out the cached token when now >= expires_at - 30:
\* a call that stands at line 66, or has returned from it, found
\* now < expires_at - 30, and a call that found now >= expires_at - 30 is on
\* the fetching path (lines 73-81).
C1_NoStaleReuse ==
    \A c \in callers :
        /\ pc[c] = "hit" => /\ token # None
                            /\ now < token_expires_at - SafetyMargin
        /\ (ret[c].kind = "token" /\ ret[c].hit) =>
               /\ ret[c].value # None
               /\ ret[c].at < ret[c].expires_at - SafetyMargin
        /\ (pc[c] # "idle" /\ loc[c].start_at >= loc[c].start_expires_at - SafetyMargin)
               => pc[c] \in FetchPcs

\* A call found a cached token with expires_at = now + 10 and sent an OAuth request.
C1_Witness ==
    /\ pc[1] = "request"
    /\ loc[1].start_token # None
    /\ loc[1].start_expires_at = loc[1].start_at + 10

\* The previous call of caller c fetched a token the gateway sent, and the
\* running call of c entered _get_oauth at the instant the previous one returned.
SecondCallNow(c) ==
    /\ pc[c] # "idle"
    /\ ret[c].kind = "token"
    /\ ~ret[c].hit
    /\ ret[c].answer = "token"
    /\ ret[c].at = loc[c].start_at

\* C2, as claimed: after a call that fetched a token (whatever expires_in the
\* gateway sent), a second call at the same instant is a cache hit: it sends
\* no OAuth request.
C2_SecondCallHits ==
    \A c \in callers : SecondCallNow(c) => pc[c] = "hit"

\* C2, amended: the second call at the same instant is a cache hit when the
\* expires_in of the fetched token (3600 when absent) is greater than 30.
C2_SecondCallHitsBeyondMargin ==
    \A c \in callers :
        (SecondCallNow(c) /\ ret[c].expires_in > SafetyMargin) => pc[c] = "hit"

\* The second call at the same instant reuses a token fetched with expires_in = 31.
C2_Witness ==
    /\ SecondCallNow(1)
    /\ ret[1].expires_in = 31
    /\ ret[1].at > 0
    /\ pc[1] = "hit"

\* C3, as claimed: with concurrent callers every token a call returns is one the
\* gateway still honours, and once no caller stands between lines 78 and 79
\* the cached expiry is not later than the expiry the gateway granted the
\* cached token.
C3_ReturnedTokenHonoured ==
    /\ \A c \in callers :
         (ret[c].kind = "token" /\ ret[c].value # None)
             => Honoured(ret[c].value, ret[c].at)
    /\ (token # None /\ \A c \in callers : pc[c] # "store_expiry")
           => token_expires_at <= token

\* C4, as claimed: an OAuth answer that is an error status or a malformed body
\* makes _get_oauth raise, leaves the cached token and expiry as they were, and
\* hands no value to the operation.
C4_FailedFetchRaises ==
    \A c \in callers :
        /\ pc[c] \in {"store_token", "store_expiry", "return"} => loc[c].answer = "token"
        /\ ret[c].answer \in {"raises", "no_access_token"} =>
               /\ ret[c].kind = "raised"
               /\ ret[c].cache_kept
        /\ ret[c].kind = "token" => ret[c].value # None

\* ================================================================ STK push
SchoolFeesPayment ==
    <<"S","c","h","o","o","l"," ","f","e","e","s"," ","p","a","y","m","e","n","t">>

\* The request of line 115 carries the first 12 characters of the description
\* as AccountReference and the whole description as TransactionDesc.
PushTruncates ==
    pc[1] = "post" =>
        LET d == loc[1].description
            a == posted.AccountReference
        IN  /\ posted.TransactionDesc = d
            /\ Len(a) = Min(AccountRefLen, Len(d))
            /\ \A i \in 1..Len(a) : a[i] = d[i]

\* C9, as claimed: AccountReference is the first 12 characters of the
\* description, TransactionDesc the whole description, and the description
\* "School fees payment" gives the account reference "School fees".
C9_AccountReference ==
    /\ PushTruncates
    /\ (pc[1] = "post" /\ loc[1].description = SchoolFeesPayment)
           => posted.AccountReference = <<"S","c","h","o","o","l"," ","f","e","e","s">>

\* C9, amended: as claimed, but the description "School fees payment" gives the
\* 12-character account reference "School fees " (with the space that follows).
C9_AccountReferenceTwelve ==
    /\ PushTruncates
    /\ (pc[1] = "post" /\ loc[1].description = SchoolFeesPayment)
           => posted.AccountReference = <<"S","c","h","o","o","l"," ","f","e","e","s"," ">>

\* The push of "School fees payment" is on the wire.
C9_Witness ==
    /\ pc[1] = "post"
    /\ loc[1].description = SchoolFeesPayment
    /\ posted.sent

\* ====================================================== documentation index
\* Markup is a sequence whose elements are single characters and whole tags:
\* a tag such as "<p>" is one element, so every tag of the model is well formed.

\* line 179: (p|div|h[1-6]|li|br|section|article), opening or closing
BlockTags ==
    {"<p>", "</p>", "<div>", "</div>", "<h1>", "</h1>", "<li>", "</li>", "<br>",
     "<section>", "</section>", "<article>", "</article>"}

\* line 181: every other tag
OtherTags ==
    {"<b>", "</b>", "<script>", "</script>", "<style>", "</style>"}

Tags == BlockTags \cup OtherTags

\* what str.strip() removes
Whitespace == {" ", "\n"}

\* lines 176-177: re.sub(r'(?is)<script.*?>.*?</script>', '', html), from
\* element i on: an opening tag and everything up to the first closing tag
\* after it go; an opening tag that is never closed stays.
RECURSIVE StripBlocks(_, _, _, _)
StripBlocks(s, i, open, close) ==
    IF i > Len(s) THEN <<>>
    ELSE IF s[i] = open /\ \E j \in (i + 1)..Len(s) : s[j] = close
         THEN LET j == CHOOSE k \in (i + 1)..Len(s) :
                           /\ s[k] = close
                           /\ \A m \in (i + 1)..(k - 1) : s[m] # close
              IN  StripBlocks(s, j + 1, open, close)
         ELSE <<s[i]>> \o StripBlocks(s, i + 1, open, close)

\* line 179: each block tag becomes one newline
RECURSIVE BlockTagsToNewlines(_)
BlockTagsToNewlines(s) ==
    IF s = <<>> THEN <<>>
    ELSE <<IF Head(s) \in BlockTags THEN "\n" ELSE Head(s)>> \o BlockTagsToNewlines(Tail(s))

\* line 181: re.sub(r'<[^>]+>', '', text)
RECURSIVE RemoveTags(_)
RemoveTags(s) ==
    IF s = <<>> THEN <<>>
    ELSE IF Head(s) \in Tags THEN RemoveTags(Tail(s))
         ELSE <<Head(s)>> \o RemoveTags(Tail(s))

\* line 183: re.sub(r'\n{2,}', '\n\n', text): a run of two or more newlines
\* becomes two newlines
RECURSIVE CollapseNewlines(_, _)
CollapseNewlines(s, run) ==
    IF s = <<>> THEN <<>>
    ELSE IF Head(s) = "\n"
         THEN IF run >= 2 THEN CollapseNewlines(Tail(s), run)
              ELSE <<"\n">> \o CollapseNewlines(Tail(s), run + 1)
         ELSE <<Head(s)>> \o CollapseNewlines(Tail(s), 0)

\* line 184: text.split('\n\n'), cur being the piece collected so far
RECURSIVE SplitBlankLines(_, _)
SplitBlankLines(s, cur) ==
    IF s = <<>> THEN <<cur>>
    ELSE IF Len(s) >= 2 /\ s[1] = "\n" /\ s[2] = "\n"
         THEN <<cur>> \o SplitBlankLines(SubSeq(s, 3, Len(s)), <<>>)
         ELSE SplitBlankLines(Tail(s), Append(cur, Head(s)))

\* line 184: p.strip()
RECURSIVE LStrip(_)
LStrip(s) ==
    IF s # <<>> /\ Head(s) \in Whitespace THEN LStrip(Tail(s)) ELSE s

RECURSIVE RStrip(_)
RStrip(s) ==
    IF s # <<>> /\ s[Len(s)] \in Whitespace THEN RStrip(SubSeq(s, 1, Len(s) - 1)) ELSE s

Strip(s) == RStrip(LStrip(s))

\* line 184: [p.strip() for p in ... if p.strip()]
RECURSIVE StripNonEmpty(_)
StripNonEmpty(ps) ==
    IF ps = <<>> THEN <<>>
    ELSE IF Strip(Head(ps)) = <<>> THEN StripNonEmpty(Tail(ps))
         ELSE <<Strip(Head(ps))>> \o StripNonEmpty(Tail(ps))

\* lines 176-183: the text that line 184 splits
ExtractText(markup) ==
    CollapseNewlines(
        RemoveTags(
            BlockTagsToNewlines(
                StripBlocks(StripBlocks(markup, 1, "<script>", "</script>"),
                            1, "<style>", "</style>"))),
        0)

\* lines 174-185: _extract_text_paragraphs
ExtractTextParagraphs(markup) ==
    StripNonEmpty(SplitBlankLines(ExtractText(markup), <<>>))

\* ------------------------------------------------------------------ scoring
UpperCase ==
    <<"A","B","C","D","E","F","G","H","I","J","K","L","M",
      "N","O","P","Q","R","S","T","U","V","W","X","Y","Z">>

LowerCase ==
    <<"a","b","c","d","e","f","g","h","i","j","k","l","m",
      "n","o","p","q","r","s","t","u","v","w","x","y","z">>

LowerChar(ch) ==
    IF \E k \in 1..Len(UpperCase) : UpperCase[k] = ch
    THEN LowerCase[CHOOSE k \in 1..Len(UpperCase) : UpperCase[k] = ch]
    ELSE ch

\* lines 220, 222: str.lower()
RECURSIVE Lower(_)
Lower(s) == IF s = <<>> THEN <<>> ELSE <<LowerChar(Head(s))>> \o Lower(Tail(s))

\* the characters \w matches
WordChars ==
    {UpperCase[k] : k \in 1..Len(UpperCase)} \cup {LowerCase[k] : k \in 1..Len(LowerCase)}
    \cup {"0","1","2","3","4","5","6","7","8","9","_"}

\* lines 225-226: set(re.findall(r"\w+", s)), cur being the run collected so far
RECURSIVE WordTokens(_, _)
WordTokens(s, cur) ==
    IF s = <<>> THEN (IF cur = <<>> THEN {} ELSE {cur})
    ELSE IF Head(s) \in WordChars THEN WordTokens(Tail(s), Append(cur, Head(s)))
         ELSE (IF cur = <<>> THEN {} ELSE {cur}) \cup WordTokens(Tail(s), <<>>)

\* difflib.SequenceMatcher.find_longest_match without junk: the longest block
\* a[i..i+k-1] = b[j..j+k-1], of those the one that starts earliest in a, of
\* those the one that starts earliest in b; k = 0 when nothing matches.
BlockAt(a, b, i, j, k) ==
    /\ i + k - 1 <= Len(a)
    /\ j + k - 1 <= Len(b)
    /\ \A d \in 0..(k - 1) : a[i + d] = b[j + d]

LongestMatch(a, b) ==
    LET ks == {k \in 1..Min(Len(a), Len(b)) :
                  \E i \in 1..Len(a), j \in 1..Len(b) : BlockAt(a, b, i, j, k)}
    IN  IF ks = {} THEN [i |-> 1, j |-> 1, k |-> 0]
        ELSE LET k == CHOOSE x \in ks : \A y \in ks : y <= x
                 is == {i \in 1..Len(a) : \E j \in 1..Len(b) : BlockAt(a, b, i, j, k)}
                 i == CHOOSE x \in is : \A y \in is : x <= y
                 js == {j \in 1..Len(b) : BlockAt(a, b, i, j, k)}
                 j == CHOOSE x \in js : \A y \in js : x <= y
             IN  [i |-> i, j |-> j, k |-> k]

\* difflib.SequenceMatcher.get_matching_blocks: the matched characters, the
\* longest block first, then the same to its left and to its right
RECURSIVE MatchedChars(_, _)
MatchedChars(a, b) ==
    IF a = <<>> \/ b = <<>> THEN 0
    ELSE LET m == LongestMatch(a, b)
         IN  IF m.k = 0 THEN 0
             ELSE m.k
                  + MatchedChars(SubSeq(a, 1, m.i - 1), SubSeq(b, 1, m.j - 1))
                  + MatchedChars(SubSeq(a, m.i + m.k, Len(a)), SubSeq(b, m.j + m.k, Len(b)))

\* line 231: 0.6 * ratio + 0.4 * overlap as the fraction num / den, with
\* ratio = 2 * matched / total (difflib's ratio()) and overlap =
\* |q_tokens & p_tokens| / |q_tokens| (0 without query tokens, line 230).
\* The code computes it in floating point; the model keeps it exact.
Weighted(matched, total, q_tokens, p_tokens) ==
    IF q_tokens # {}
    THEN [num |-> 6 * 2 * matched * Cardinality(q_tokens)
                  + 4 * Cardinality(q_tokens \cap p_tokens) * total,
          den |-> 10 * total * Cardinality(q_tokens)]
    ELSE [num |-> 6 * 2 * matched, den |-> 10 * total]

\* lines 220-231: the score of paragraph para for query
Score(query, para) ==
    LET q == Lower(query)
        p_low == Lower(para)
    IN  Weighted(MatchedChars(q, p_low), Len(q) + Len(p_low),
                 WordTokens(q, <<>>), WordTokens(p_low, <<>>))

\* s1 < s2 on scores
ScoreLess(s1, s2) == s1.num * s2.den < s2.num * s1.den

\* line 237: round(float(score), 4), in ten-thousandths (ties to even)
Round4(score) ==
    LET n == score.num * 10000
        lo == n \div score.den
        r2 == 2 * (n % score.den)
    IN  IF r2 < score.den THEN lo
        ELSE IF r2 > score.den THEN lo + 1
        ELSE IF lo % 2 = 0 THEN lo ELSE lo + 1

----
\* line 234 as a sort that is not stable: of two candidates with equal scores
\* the later one comes first.
InsertDesc_TiesReversed(sorted, cand) ==
    LET before == {k \in 1..Len(sorted) : ScoreLess(cand.score, sorted[k].score)}
        n == Cardinality(before)
    IN  SubSeq(sorted, 1, n) \o <<cand>> \o SubSeq(sorted, n + 1, Len(sorted))

\* line 234: candidates.sort(reverse=True, key=lambda t: t[0]) is a stable
\* sort: a candidate goes after every candidate already placed whose score is
\* not smaller (sorted is descending, so those are a prefix).
InsertDesc(sorted, cand) ==
    LET before == {k \in 1..Len(sorted) : ~ScoreLess(sorted[k].score, cand.score)}
        n == Cardinality(before)
    IN  SubSeq(sorted, 1, n) \o <<cand>> \o SubSeq(sorted, n + 1, Len(sorted))

RECURSIVE SortDesc(_, _)
SortDesc(sorted, cands) ==
    IF cands = <<>> THEN sorted
    ELSE SortDesc(InsertDesc(sorted, Head(cands)), Tail(cands))

\* lines 219-232: one candidate per indexed passage, in index order, from
\* the k-th passage on
RECURSIVE Candidates(_, _, _)
Candidates(query, index, k) ==
    IF k > Len(index) THEN <<>>
    ELSE <<[score |-> Score(query, index[k].paragraph), pos |-> k]>>
         \o Candidates(query, index, k + 1)

\* A plausible slip at line 236: one result too few.
TopN_OneShort(sorted, top_n) == SubSeq(sorted, 1, Min(top_n - 1, Len(sorted)))

\* line 236: candidates[:top_n], top_n >= 1
TopN(sorted, top_n) == SubSeq(sorted, 1, Min(top_n, Len(sorted)))

\* lines 235-237: the matches, from the candidates kept
RECURSIVE Matches(_, _)
Matches(index, kept) ==
    IF kept = <<>> THEN <<>>
    ELSE <<[paragraph |-> index[Head(kept).pos].paragraph,
            source |-> index[Head(kept).pos].source,
            score |-> Round4(Head(kept).score)]>>
         \o Matches(index, Tail(kept))

\* the index positions of the candidates kept, in result order
RECURSIVE Positions(_)
Positions(kept) ==
    IF kept = <<>> THEN <<>> ELSE <<Head(kept).pos>> \o Positions(Tail(kept))

\* --------------------------------------------------- building and searching
\* line 54: self._docs_sources.  The code configures one URL; the list is
\* modelled with two, so that one source can fail while another succeeds.
DocsSources == <<"https://developer.safaricom.co.ke/", "https://docs.example/">>

PageTwo == <<"<p>","A","b"," ","c","</p>","<p>","c","d","</p>">>

PageTitle == <<"<h1>","a","b","</h1>">>

PageScript == <<"<script>","x","</script>">>

\* What requests.get(src) of line 193 can bring: an exception or an error
\* status (lines 193-194 raise), or a page.
FetchOutcomes ==
    {[ok |-> FALSE, page |-> <<>>]}
    \cup {[ok |-> TRUE, page |-> pg] : pg \in {PageTwo, PageTitle, PageScript}}

Queries ==
    { <<>>, <<" ", " ">>, <<"a","b">>, <<"C"," ","d">> }

\* line 208: not query or not query.strip()
QueryInvalid(query) == query = <<>> \/ Strip(query) = <<>>

\* lines 196-198: (p, src) for each paragraph
RECURSIVE TagParagraphs(_, _)
TagParagraphs(paras, src) ==
    IF paras = <<>> THEN <<>>
    ELSE <<[paragraph |-> Head(paras), source |-> src]>> \o TagParagraphs(Tail(paras), src)

\* lines 190-201 as a loop that the first failing source ends.
RECURSIVE BuildFrom_FirstFailureEnds(_, _, _)
BuildFrom_FirstFailureEnds(index, i, outcomes) ==
    IF i > Len(DocsSources) THEN index
    ELSE IF outcomes[i].ok
         THEN BuildFrom_FirstFailureEnds(
                  index \o TagParagraphs(ExtractTextParagraphs(outcomes[i].page),
                                         DocsSources[i]),
                  i + 1, outcomes)
         ELSE index

\* lines 190-201: for src in self._docs_sources, from the i-th source on; what
\* lines 193-195 raise is caught at line 200 and the loop goes on.
RECURSIVE BuildFrom(_, _, _)
BuildFrom(index, i, outcomes) ==
    IF i > Len(DocsSources) THEN index
    ELSE IF outcomes[i].ok
         THEN BuildFrom(index \o TagParagraphs(ExtractTextParagraphs(outcomes[i].page),
                                               DocsSources[i]),
                        i + 1, outcomes)
         ELSE BuildFrom(index, i + 1, outcomes)

\* line 188: if self._docs_index: return
AlreadyBuilt(index) == index # <<>>

\* lines 187-201: _build_docs_index
BuildDocsIndex(index, outcomes) ==
    IF AlreadyBuilt(index) THEN index ELSE BuildFrom(index, 1, outcomes)

\* A plausible slip at line 212: the test is inverted.
NeedsBuild_Inverted(index) == index # <<>>

\* line 212: if not self._docs_index
NeedsBuild(index) == index = <<>>

\* lines 219-239 on a non-empty index: the matches and, for each, its index position
Ranked(query, top_n, index) ==
    LET kept == TopN(SortDesc(<<>>, Candidates(query, index, 1)), top_n)
    IN  [matches |-> Matches(index, kept), order |-> Positions(kept)]

\* lines 203-239: doc_search(query, top_n); outcomes is what each source
\* answers when this call fetches it.
Searched(query, top_n, outcomes) ==
    IF QueryInvalid(query)
    THEN /\ search' = [NoSearch EXCEPT !.kind = "raised", !.query = query,
                                       !.top_n = top_n, !.nth = search.nth,
                                       !.was_empty = (docs_index = <<>>)]
         /\ UNCHANGED docs_index
    ELSE \E index \in {IF NeedsBuild(docs_index)
                       THEN BuildDocsIndex(docs_index, outcomes) ELSE docs_index} :
           /\ docs_index' = index
           /\ \E found \in {[NoSearch EXCEPT
                                !.kind = "result", !.query = query, !.top_n = top_n,
                                !.nth = search.nth + 1,
                                !.fetched = IF /\ NeedsBuild(docs_index)
                                               /\ ~AlreadyBuilt(docs_index)
                                            THEN outcomes ELSE <<>>,
                                !.was_empty = (docs_index = <<>>),
                                !.changed = (index # docs_index)]} :
                IF index = <<>>
                THEN search' = [found EXCEPT !.note = TRUE]
                ELSE \E r \in {Ranked(query, top_n, index)} :
                       search' = [found EXCEPT !.matches = r.matches, !.order = r.order]

DocSearch ==
    /\ nsearch < MaxSearches
    /\ nsearch' = nsearch + 1
    /\ \E query \in Queries, top_n \in 1..MaxTopN :
         IF NeedsBuild(docs_index) /\ ~AlreadyBuilt(docs_index) /\ ~QueryInvalid(query)
         THEN \E outcomes \in [1..Len(DocsSources) -> FetchOutcomes] :
                Searched(query, top_n, outcomes)
         ELSE Searched(query, top_n, <<>>)
    /\ UNCHANGED <<tokvars, extvars, srvvars>>

InitDocs ==
    /\ TokIdle
    /\ DocsIdle
    /\ ExtractIdle
    /\ ServerIdle

NextDocs == DocSearch

SpecDocs == InitDocs /\ [][NextDocs]_vars

\* ------------------------------------------------- extraction on its own
PageHello ==
    <<"<p>","H","e","l","l","o"," ","w","o","r","l","d","</p>",
      "<p>","G","o","o","d","b","y","e","</p>">>

HtmlAlphabet == {"a", "b", " ", "\n", "<p>", "<br>", "<b>", "<script>", "</script>"}

HtmlInputs ==
    UNION {[1..n -> HtmlAlphabet] : n \in 0..MaxHtmlLen} \cup {PageHello}

\* lines 193-198 for one source that serves html: its paragraphs, tagged
IndexPage ==
    /\ ~extracted
    /\ extracted' = TRUE
    /\ paragraphs' = TagParagraphs(ExtractTextParagraphs(html), DocsSources[1])
    /\ UNCHANGED <<html, tokvars, docvars, srvvars>>

InitExtract ==
    /\ TokIdle
    /\ DocsIdle
    /\ ServerIdle
    /\ html \in HtmlInputs
    /\ paragraphs = <<>>
    /\ extracted = FALSE

NextExtract == IndexPage

SpecExtract == InitExtract /\ [][NextExtract]_vars

\* ===================================================== claims on the index
\* C5, as claimed: the first search with a valid query fetches the sources, and
\* no later search fetches a source or changes the index.
C5_BuiltOnce ==
    search.kind = "result" =>
        /\ search.nth = 1 => Len(search.fetched) = Len(DocsSources)
        /\ search.nth > 1 => (search.fetched = <<>> /\ ~search.changed)

\* C5, amended: a search with a valid query that finds the index empty fetches
\* every source; one that finds it non-empty fetches none and leaves it as it is.
C5_BuiltWhileEmpty ==
    search.kind = "result" =>
        /\ search.was_empty => Len(search.fetched) = Len(DocsSources)
        /\ ~search.was_empty => (search.fetched = <<>> /\ ~search.changed)

\* A later search found the index built and used it.
C5_Witness ==
    /\ search.kind = "result"
    /\ search.nth >= 2
    /\ ~search.was_empty
    /\ search.matches # <<>>

\* the passages of the sources 1..n whose fetch succeeded, in source order
RECURSIVE PassagesUpTo(_, _)
PassagesUpTo(fetched, n) ==
    IF n = 0 THEN <<>>
    ELSE PassagesUpTo(fetched, n - 1)
         \o (IF fetched[n].ok
             THEN TagParagraphs(ExtractTextParagraphs(fetched[n].page), DocsSources[n])
             ELSE <<>>)

\* C6: a search raises only for an invalid query; after a build the index is
\* the passages of every source whose fetch succeeded, in source order,
\* whichever fetches failed; when every fetch failed the search returns no
\* match and the note.
C6_FailuresSkipped ==
    /\ search.kind = "raised" => QueryInvalid(search.query)
    /\ (search.kind = "result" /\ search.fetched # <<>>) =>
           /\ docs_index = PassagesUpTo(search.fetched, Len(DocsSources))
           /\ (\A i \in 1..Len(DocsSources) : ~search.fetched[i].ok) =>
                  (search.matches = <<>> /\ search.note)

\* The first source failed, the second was indexed and searched.
C6_Witness ==
    /\ search.kind = "result"
    /\ search.fetched # <<>>
    /\ ~search.fetched[1].ok
    /\ search.fetched[2].ok
    /\ search.matches # <<>>

\* the score of the k-th indexed passage for the last query
ScoreAt(k) == Score(search.query, docs_index[k].paragraph)

\* C7: on a non-empty index a search returns min(top_n, index size) results,
\* in descending score order, passages of equal score in index order, and no
\* passage left out scores higher than one returned.
C7_TopNStable ==
    (search.kind = "result" /\ docs_index # <<>>) =>
        LET o == search.order
            m == search.matches
        IN  /\ Len(m) = Min(search.top_n, Len(docs_index))
            /\ Len(o) = Len(m)
            /\ \A i \in 1..Len(o) :
                 /\ o[i] \in 1..Len(docs_index)
                 /\ m[i].paragraph = docs_index[o[i]].paragraph
                 /\ m[i].source = docs_index[o[i]].source
                 /\ m[i].score = Round4(ScoreAt(o[i]))
            /\ \A i, j \in 1..Len(o) :
                 i < j => /\ ~ScoreLess(ScoreAt(o[i]), ScoreAt(o[j]))
                          /\ m[i].score >= m[j].score
                          /\ ~ScoreLess(ScoreAt(o[j]), ScoreAt(o[i])) => o[i] < o[j]
            /\ \A k \in 1..Len(docs_index) :
                 (\A i \in 1..Len(o) : o[i] # k) =>
                     \A i \in 1..Len(o) : ~ScoreLess(ScoreAt(o[i]), ScoreAt(k))

\* Two passages of equal, positive score were returned and a passage was left out.
C7_Witness ==
    /\ search.kind = "result"
    /\ Len(search.order) = 2
    /\ Len(docs_index) > 2
    /\ ScoreAt(search.order[1]).num > 0
    /\ ~ScoreLess(ScoreAt(search.order[2]), ScoreAt(search.order[1]))

\* ------------------------------------------------------ claims on extraction
TextChars == {"a", "b"}

Occurrences(s, x) == Cardinality({i \in 1..Len(s) : s[i] = x})

Contains(s, x) == \E i \in 1..Len(s) : s[i] = x

\* C8, as claimed: every passage is trimmed and non-empty; two text runs with a
\* block-level tag between them end up in different passages (stated for
\* markup without script or style blocks, on two characters that each occur
\* once); and "<p>Hello world</p><p>Goodbye</p>" gives the two passages
\* "Hello world" and "Goodbye", each tagged with the source.
C8_BlockTagsSeparate ==
    extracted =>
        /\ \A n \in 1..Len(paragraphs) :
             /\ paragraphs[n].paragraph # <<>>
             /\ paragraphs[n].paragraph = Strip(paragraphs[n].paragraph)
             /\ paragraphs[n].source = DocsSources[1]
        /\ \A i, k \in 1..Len(html) :
             ( /\ i < k
               /\ html[i] \in TextChars
               /\ html[k] \in TextChars
               /\ Occurrences(html, html[i]) = 1
               /\ Occurrences(html, html[k]) = 1
               /\ ~Contains(html, "<script>")
               /\ \E j \in (i + 1)..(k - 1) : html[j] \in BlockTags )
             => ~\E n \in 1..Len(paragraphs) :
                    /\ Contains(paragraphs[n].paragraph, html[i])
                    /\ Contains(paragraphs[n].paragraph, html[k])
        /\ html = PageHello =>
             paragraphs =
               <<[paragraph |-> <<"H","e","l","l","o"," ","w","o","r","l","d">>,
                  source |-> DocsSources[1]],
                 [paragraph |-> <<"G","o","o","d","b","y","e">>,
                  source |-> DocsSources[1]]>>

\* =============================================================== dispatcher
\* server.py, lines 28-31: the tools main() exposes (the keys of TOOLS_METADATA)
ToolNames ==
    {"simulate_stk_push", "query_transaction_status", "generate_test_credentials",
     "register_callback_url", "doc_search", "start_ngrok_and_register"}

\* The "tool" member of a request: absent (msg.get gives None), a string, or a
\* JSON array or object, which cannot be hashed.
RequestTools ==
    {"absent", "unhashable", "list_tools", "no_such_tool",
     "generate_test_credentials", "query_transaction_status"}

\* The "args" member: absent ({} by line 47), a falsy value, a non-empty JSON
\* object, or a truthy value that is no object (an array, a string, a number).
RequestArgs == {"absent", "falsy", "mapping", "not_mapping"}

\* The "id" member; 0 stands for an absent id (None).
RequestIds == {0, 1, 2}

\* A line of stdin after line.strip(): empty, not JSON, a JSON value that is
\* no object, or a JSON object.
InputLines ==
    {[kind |-> k, id |-> 0, tool |-> "absent", args |-> "absent"] :
        k \in {"blank", "garbage", "value"}}
    \cup {[kind |-> "object", id |-> i, tool |-> t, args |-> a] :
            i \in RequestIds, t \in RequestTools, a \in RequestArgs}

\* How func(**args) / func() of line 61 can end: it returns, or raises an
\* exception whose str() is or is not empty.
ToolOutcomes == {"returns", "raises", "raises_empty"}

\* line 61 for tool and args: what the call can do.  A truthy args that is no
\* mapping makes func(**args) raise TypeError; generate_test_credentials takes
\* no argument and touches no network; query_transaction_status needs its
\* argument and then depends on the gateway.
PossibleOutcomes(tool, args) ==
    IF args = "not_mapping" THEN {"raises"}
    ELSE IF tool = "generate_test_credentials"
         THEN (IF args = "mapping" THEN {"raises"} ELSE {"returns"})
         ELSE (IF args = "mapping" THEN ToolOutcomes ELSE {"raises"})

\* lines 14-22: send_response(req_id, result, error) writes this object;
\* error "none" is None and error "" the empty string, both falsy at line 16.
Response(req_id, result, error) ==
    IF error \notin {"none", ""}
    THEN [id |-> req_id, field |-> "error", value |-> error]
    ELSE [id |-> req_id, field |-> "result", value |-> result]

\* line 40: json.loads(line) raises
ParseFails(line) == line.kind = "garbage"

\* Lines 45-47 raise AttributeError when msg has no get(), and line 55 raises
\* TypeError when tool cannot be hashed: neither is caught, main() ends.
Crashes(line) ==
    \/ line.kind = "value"
    \/ line.kind = "object" /\ line.tool = "unhashable"

\* lines 51-66: the response to the request msg, the tool ending as outcome
Answer(msg, outcome) ==
    IF msg.tool = "list_tools"
    THEN Response(msg.id, "tools", "none")
    ELSE IF msg.tool \notin ToolNames
    THEN Response(msg.id, "none", "Unknown tool")
    ELSE IF outcome = "returns"
    THEN Response(msg.id, "tool_result", "none")
    ELSE IF outcome = "raises"
    THEN Response(msg.id, "none", "tool_error")
    ELSE Response(msg.id, "none", "")

\* lines 51-66: the branch that writes the response to msg: the list_tools
\* pseudo-tool, an unknown tool, or a tool call that ends as outcome
Dispatched(msg, outcome) ==
    IF msg.tool = "list_tools" THEN "list_tools"
    ELSE IF msg.tool \notin ToolNames THEN "unknown"
    ELSE outcome

\* lines 35-66: one turn of the loop of main()
ReadLine ==
    /\ server = "serving"
    /\ Len(lines) < MaxLines
    /\ \E line \in InputLines :
         /\ lines' = Append(lines, line)
         /\ IF line.kind = "blank" \/ ParseFails(line)
            THEN UNCHANGED <<stdout, server, invoked>>
            ELSE IF Crashes(line)
            THEN /\ server' = "crashed"
                 /\ UNCHANGED <<stdout, invoked>>
            ELSE /\ \E outcome \in PossibleOutcomes(line.tool, line.args) :
                      /\ stdout' = Append(stdout, Answer(line, outcome))
                      /\ invoked' = Append(invoked, Dispatched(line, outcome))
                 /\ UNCHANGED server
    /\ UNCHANGED <<tokvars, docvars, extvars>>

InitServer ==
    /\ TokIdle
    /\ DocsIdle
    /\ ExtractIdle
    /\ ServerIdle

NextServer == ReadLine

SpecServer == InitServer /\ [][NextServer]_vars

\* the lines read that json.loads parses, in order
RECURSIVE ParsedLines(_)
ParsedLines(ls) ==
    IF ls = <<>> THEN <<>>
    ELSE IF Head(ls).kind \in {"value", "object"}
         THEN <<Head(ls)>> \o ParsedLines(Tail(ls))
         ELSE ParsedLines(Tail(ls))

\* C10, as claimed: the loop is still serving after any lines, and has written
\* one response per non-blank line that parses as JSON, in input order, each
\* with the id of its request.
C10_OneResponsePerRequest ==
    /\ server = "serving"
    /\ Len(stdout) = Len(ParsedLines(lines))
    /\ \A k \in 1..Len(stdout) :
         ParsedLines(lines)[k].kind = "object" => stdout[k].id = ParsedLines(lines)[k].id

\* C11, as claimed: a response carries the error field, and no result, exactly
\* when the tool was unknown or its call raised, whatever the message of the
\* exception, the empty one included; otherwise it carries result.
C11_ErrorIffFailed ==
    /\ Len(invoked) = Len(stdout)
    /\ \A k \in 1..Len(stdout) :
         /\ stdout[k].field \in {"error", "result"}
         /\ stdout[k].field = "error" <=>
                invoked[k] \in {"unknown", "raises", "raises_empty"}

====
